---- MODULE Spec2Model ----
(***************************************************************************)
(* Geofencing core of dinnafind: the GeofencingService coordinator         *)
(* (src/services/GeofencingService.ts, class GeofencingService) and the    *)
(* background geofence task (TaskManager.defineTask).                      *)
(*                                                                         *)
(* Every `await` of the source is a suspension point: one action of the    *)
(* model is the completion of the awaited operation followed by the        *)
(* synchronous code up to the next `await`.  AsyncStorage serves the       *)
(* requests of one JavaScript context in the order they were issued, so    *)
(* the storage requests of the coordinator complete in FIFO order          *)
(* (ioQueue).                                                              *)
(*                                                                         *)
(* Radii are in units of 1/10000 metre and alert distances in hundredths   *)
(* of a mile, so that distanceMiles * 1609.34 is exact.  Times are in      *)
(* milliseconds.                                                           *)
(***************************************************************************)
EXTENDS Integers, Sequences, FiniteSets, TLC

VARIABLES
  geofences,         \* GeofencingService.geofences (in-memory active set)
  stored,            \* AsyncStorage value under STORAGE_KEY
  cooldowns,         \* AsyncStorage keys last_notification_<identifier>
  monitoring,        \* regions watched by the OS for GEOFENCE_TASK_NAME
  foregroundStatus,  \* Location.getForegroundPermissionsAsync().status
  backgroundStatus,  \* Location.getBackgroundPermissionsAsync().status
  calls,             \* coordinator calls in flight, one record per slot
  ioQueue,           \* coordinator storage requests not yet served, oldest first
  storageFailed,     \* history: a coordinator storage request has failed
  settled,           \* history: how the call that settled last ended
  handlers,          \* invocations of the geofence task, one record per slot
  notifications,     \* history: notifications dispatched, oldest first
  escaped,           \* history: an exception left the geofence task
  now,               \* Date.now()
  events,            \* geofence events delivered so far
  eventTypeStr,      \* history: the type of the event delivered last
  redux              \* Redux store: state.bucketList.items and the alert
                     \* preferences of state.ui

vars == <<geofences, stored, cooldowns, monitoring, foregroundStatus,
          backgroundStatus, calls, ioQueue, storageFailed, settled,
          handlers, notifications, escaped, now, events, eventTypeStr,
          redux>>

coordVars == <<geofences, monitoring, foregroundStatus, backgroundStatus,
               calls, ioQueue, storageFailed, settled>>
taskVars == <<handlers, notifications, escaped, now, events, eventTypeStr>>

----------------------------------------------------------------------------
(* Bounds of the model *)

MaxCalls == 2      \* coordinator calls in flight at once
MaxHandlers == 2   \* invocations of the geofence task in flight at once
MaxEvents == 3     \* geofence events delivered in one run
MaxTicks == 6      \* the clock stops after MaxTicks half windows

Slots == 1..MaxCalls
HSlots == 1..MaxHandlers

----------------------------------------------------------------------------
(* Data *)

NOTIFICATION_COOLDOWN == (1 * 60 * 1000) \div 10

MinRadius == 100 * 10000

Undefined == "undefined"

Geofence(id, name, radius, venueId) ==
  [id |-> id, name |-> name, latitude |-> 45, longitude |-> 7,
   radius |-> radius, venueId |-> venueId]

gCafe100 == Geofence("g1", "Cafe", 100 * 10000, "v1")
gCafeWide == Geofence("g1", "Cafe", 125 * 160934, "v1")
gBar == Geofence("v1", "Bar", 125 * 160934, "v3")
gSelf == Geofence("g2", "g2", 100 * 10000, Undefined)
gAlias == Geofence("g4", "v1", 100 * 10000, "v4")
gNoId == Geofence("", "Cafe", 100 * 10000, "v1")
gNoName == Geofence("g1", "", 100 * 10000, "v1")
gMissingId == Geofence(Undefined, "Cafe", 100 * 10000, "v1")
gCafe50 == Geofence("g1", "Cafe", 50 * 10000, "v1")

\* Arguments of addGeofence: two records of one id, a second id, malformed ones.
AddInputs == {gCafeWide, gBar, gNoId, gNoName}
AllAddInputs == AddInputs \cup {gCafe100, gCafe50, gMissingId}
\* Records added before a restart: one of them has no venueId.
RestartInputs == {gCafeWide, gSelf}
RemoveInputs == {"g1", "v1"}

Item(id, enabled, name, venueId, lat, lng) ==
  [id |-> id, notificationsEnabled |-> enabled, name |-> name,
   venueId |-> venueId, latitude |-> lat, longitude |-> lng]

\* Saved items handed to rebuildGeofencesFromBucketList.
ItemLists ==
  { << Item("g1", TRUE, "Cafe", "v1", 45, 7),
       Item("g3", FALSE, "Deli", "v5", 45, 7),
       Item("g1", TRUE, "Cafe", "v1", 45, 7) >> }
\* More lists for awaited rebuilds: an enabled item whose venue has an empty
\* name, between two items that are in order; an item without coordinates.
AllItemLists ==
  ItemLists \cup
  { << Item("g1", TRUE, "Cafe", "v1", 45, 7),
       Item("g5", TRUE, "", "v6", 46, 8),
       Item("v1", TRUE, "Bar", "v3", 45, 7) >>,
    << Item("g3", TRUE, "Deli", "v5", 0, 7),
       Item("v1", TRUE, "Bar", "v3", 46, 8) >> }
Distances == {125}

\* initialState of the ui slice and of the bucket list slice: master alerts
\* on, 1.25 miles, no saved item.
InitialRedux ==
  [items |-> <<>>, masterNotificationsEnabled |-> TRUE, distanceMiles |-> 125]

----------------------------------------------------------------------------
(* Serialisation *)

GeofenceKeys == {"id", "name", "latitude", "longitude", "radius", "venueId"}

\* JSON.stringify of one geofence: a property whose value is undefined is
\* left out of the text; strings and finite numbers are written out and
\* read back as the same values.
Serialise(g) ==
  [k \in DOMAIN g \ {f \in {"id", "name", "venueId"} : g[f] = Undefined}
     |-> g[k]]

DeserialiseWithoutVenue(o) ==
  [k \in GeofenceKeys |->
     IF k \in DOMAIN o /\ k # "venueId" THEN o[k] ELSE Undefined]

\* One parsed object as the code reads it: a property the text does not
\* have reads as undefined.
Deserialise(o) ==
  [k \in GeofenceKeys |-> IF k \in DOMAIN o THEN o[k] ELSE Undefined]

\* JSON.stringify(this.geofences)
JSONstringify(gs) ==
  [kind |-> "json", val |-> [i \in 1..Len(gs) |-> Serialise(gs[i])]]
StoredNull == [kind |-> "null", val |-> <<>>]
StoredCorrupt == [kind |-> "corrupt", val |-> <<>>]
\* JSON.parse(stored) of a text that parses
JSONparse(s) == [i \in 1..Len(s.val) |-> Deserialise(s.val[i])]

\* !storedData || storedData === '[]'
NoStoredData(s) == s.kind = "null" \/ (s.kind = "json" /\ s.val = <<>>)

----------------------------------------------------------------------------
(* The in-memory set *)

\* Array.prototype.findIndex / find on one field: the first match, 1-based,
\* 0 when there is none.
FirstIndex(gs, field, v) ==
  IF \E i \in 1..Len(gs) : gs[i][field] = v
  THEN CHOOSE i \in 1..Len(gs) :
         gs[i][field] = v /\ \A j \in 1..(i - 1) : gs[j][field] # v
  ELSE 0

\* this.geofences.findIndex(g => g.id === id)
FindIndex(gs, id) == FirstIndex(gs, "id", id)

UpsertAppend(gs, g) == Append(gs, g)

Upsert(gs, g) ==
  LET existingIndex == FindIndex(gs, g.id)
  IN IF existingIndex > 0 THEN [gs EXCEPT ![existingIndex] = g]
     ELSE Append(gs, g)

Without(gs, id) == SelectSeq(gs, LAMBDA g : g.id # id)

Max(a, b) == IF a >= b THEN a ELSE b

RegionsUnclamped(gs) ==
  { [identifier |-> gs[i].id, latitude |-> gs[i].latitude,
     longitude |-> gs[i].longitude, radius |-> gs[i].radius]
    : i \in 1..Len(gs) }

Regions(gs) ==
  { [identifier |-> gs[i].id, latitude |-> gs[i].latitude,
     longitude |-> gs[i].longitude, radius |-> Max(gs[i].radius, MinRadius)]
    : i \in 1..Len(gs) }

MilesToMeters(distanceMiles) == distanceMiles * 160934

----------------------------------------------------------------------------
(* Coordinator calls *)

\* A call in flight: where it stands (pc), what follows its _saveGeofences
\* (tail: _updateGeofences after add and remove, stopGeofencingAsync after
\* clear, the rest of initialize after its load and its
\* ensureGeofenceDataAvailable), whether it runs inside
\* rebuildGeofencesFromBucketList (the items left and the radius), the values
\* it captured before an await, which method was called with which id
\* (op, id), and what the call was given: the items of a rebuild, the
\* in-memory set and the stored value an initialize began with.
IdleCall ==
  [pc |-> "idle", tail |-> "none", rebuild |-> FALSE, items |-> <<>>,
   radius |-> 0, existingIndex |-> 0, snap |-> <<>>, keys |-> {},
   regions |-> {}, op |-> "none", id |-> "", given |-> <<>>]

\* The caller's call of a public method begins.
Begin(st, c, op, id) ==
  [st EXCEPT !.calls[c].op = op, !.calls[c].id = id]

\* A caller takes the lowest free slot.
Free(c) ==
  /\ calls[c].pc = "idle"
  /\ \A d \in Slots : d < c => calls[d].pc # "idle"

Coord == [geofences |-> geofences, calls |-> calls, ioQueue |-> ioQueue,
          settled |-> settled]

Commit(st) ==
  /\ geofences' = st.geofences
  /\ calls' = st.calls
  /\ ioQueue' = st.ioQueue
  /\ settled' = st.settled

\* The promise of call c settles.  Inside initializeApp the promise is the
\* one of the awaited GeofencingService.initialize(): with the master alerts
\* of its closure on, initializeApp goes on to checkAndRequestLocationServices.
Settle(st, c, outcome) ==
  IF /\ st.calls[c].op = "appInit" /\ ~st.calls[c].rebuild
     /\ st.calls[c].pc # "app.services"
     /\ st.calls[c].given[2]
  THEN [st EXCEPT !.calls[c].pc = "app.services", !.calls[c].tail = "none"]
  ELSE [st EXCEPT !.calls[c] = IdleCall, !.settled = outcome]

Dequeue(st) == [st EXCEPT !.ioQueue = Tail(@)]

IssueStorage(st, c, pc) ==
  [st EXCEPT !.calls[c].pc = pc, !.ioQueue = Append(@, c)]

\* _saveGeofences up to its first await: the set is serialised now.
saveGeofences(st, c, pc) ==
  IssueStorage([st EXCEPT !.calls[c].snap = st.geofences], c, pc)

\* !value of a string property
Falsy(v) == v \in {"", Undefined}

addGeofenceUnchecked(st, c, g) ==
  saveGeofences([st EXCEPT !.geofences = Upsert(@, g),
                           !.calls[c].existingIndex = FindIndex(st.geofences, g.id),
                           !.calls[c].tail = "update"], c, "save.write")

addGeofence(st, c, g) ==
  IF Falsy(g.id) \/ Falsy(g.name)
  THEN Settle(st, c, "rejected_invalid")
  ELSE saveGeofences([st EXCEPT !.geofences = Upsert(@, g),
                                !.calls[c].existingIndex = FindIndex(st.geofences, g.id),
                                !.calls[c].tail = "update"], c, "save.write")

removeGeofenceStale(st, c, id) ==
  [saveGeofences([st EXCEPT !.calls[c].tail = "update"], c, "save.write")
     EXCEPT !.geofences = Without(st.geofences, id)]

removeGeofence(st, c, id) ==
  saveGeofences([st EXCEPT !.geofences = Without(@, id),
                           !.calls[c].tail = "update"], c, "save.write")

clearAllGeofencesViaUpdate(st, c) ==
  saveGeofences([st EXCEPT !.geofences = <<>>,
                           !.calls[c].tail = "update"], c, "save.write")

clearAllGeofences(st, c) ==
  saveGeofences([st EXCEPT !.geofences = <<>>,
                           !.calls[c].tail = "clear"], c, "save.write")

Eligible(item) ==
  item.notificationsEnabled /\ item.latitude # 0 /\ item.longitude # 0

RECURSIVE NextEligible(_)
NextEligible(items) ==
  IF items = <<>> THEN <<>>
  ELSE IF Eligible(Head(items)) THEN items
  ELSE NextEligible(Tail(items))

\* The for loop of rebuildGeofencesFromBucketList, up to its next await.
RebuildLoop(st, c) ==
  LET rest == NextEligible(st.calls[c].items)
  IN IF rest = <<>> THEN Settle(st, c, "resolved")
     ELSE addGeofence([st EXCEPT !.calls[c].items = Tail(rest)], c,
                      [id |-> Head(rest).id, name |-> Head(rest).name,
                       latitude |-> Head(rest).latitude,
                       longitude |-> Head(rest).longitude,
                       radius |-> st.calls[c].radius,
                       venueId |-> Head(rest).venueId])

\* addGeofence, removeGeofence or clearAllGeofences returns to its caller.
AfterOp(st, c) ==
  IF st.calls[c].rebuild
  THEN RebuildLoop([st EXCEPT !.calls[c].tail = "none"], c)
  ELSE Settle(st, c, "resolved")

\* initialize after ensureGeofenceDataAvailable returned: with geofences in
\* memory the foreground permission is asked for.
AfterEnsure(st, c) ==
  IF st.geofences # <<>>
  THEN [st EXCEPT !.calls[c].pc = "init.fg", !.calls[c].tail = "none"]
  ELSE Settle(st, c, "resolved")

StorageTurn(c) == ioQueue # <<>> /\ Head(ioQueue) = c

AllIdle == \A c \in Slots : calls[c].pc = "idle"

CallAddGeofence(c, g) ==
  /\ Free(c)
  /\ Commit(addGeofence(Begin(Coord, c, "add", g.id), c, g))
  /\ UNCHANGED <<stored, cooldowns, monitoring, foregroundStatus,
                 backgroundStatus, storageFailed, taskVars, redux>>

CallRemoveGeofenceForgets(c, id) ==
  /\ Free(c)
  /\ Commit(removeGeofence(Begin(Coord, c, "remove", id), c, id))
  /\ cooldowns' = [k \in DOMAIN cooldowns \ {id} |-> cooldowns[k]]
  /\ UNCHANGED <<stored, monitoring, foregroundStatus,
                 backgroundStatus, storageFailed, taskVars, redux>>

CallRemoveGeofence(c, id) ==
  /\ Free(c)
  /\ Commit(removeGeofence(Begin(Coord, c, "remove", id), c, id))
  /\ UNCHANGED <<stored, cooldowns, monitoring, foregroundStatus,
                 backgroundStatus, storageFailed, taskVars, redux>>

CallClearAllGeofences(c) ==
  /\ Free(c)
  /\ Commit(clearAllGeofences(Begin(Coord, c, "clear", ""), c))
  /\ UNCHANGED <<stored, cooldowns, monitoring, foregroundStatus,
                 backgroundStatus, storageFailed, taskVars, redux>>

CallRebuild(c, items, distanceMiles) ==
  /\ Free(c)
  /\ Commit(clearAllGeofences(
       [Begin(Coord, c, "rebuild", "") EXCEPT
                     !.calls[c].rebuild = TRUE,
                     !.calls[c].items = items,
                     !.calls[c].given = items,
                     !.calls[c].radius = MilesToMeters(distanceMiles)],
       c))
  /\ UNCHANGED <<stored, cooldowns, monitoring, foregroundStatus,
                 backgroundStatus, storageFailed, taskVars, redux>>

\* _saveGeofences: AsyncStorage.setItem resolved, the verification read is issued.
SaveWritten(c) ==
  /\ calls[c].pc = "save.write" /\ StorageTurn(c)
  /\ stored' = JSONstringify(calls[c].snap)
  /\ Commit(IssueStorage([Dequeue(Coord) EXCEPT !.calls[c].snap = <<>>,
                                                 !.calls[c].existingIndex = 0],
                         c, "save.verify"))
  /\ UNCHANGED <<cooldowns, monitoring, foregroundStatus, backgroundStatus, storageFailed,
                 taskVars, redux>>

\* _saveGeofences: setItem or the verification getItem rejected; the catch
\* rethrows and the call rejects, except under ensureGeofenceDataAvailable,
\* which catches the error.
SaveFailed(c) ==
  /\ calls[c].pc \in {"save.write", "save.verify"} /\ StorageTurn(c)
  /\ storageFailed' = TRUE
  /\ Commit(IF calls[c].tail = "ensure"
            THEN AfterEnsure([Dequeue(Coord) EXCEPT !.calls[c].snap = <<>>], c)
            ELSE Settle(Dequeue(Coord), c, "rejected_storage"))
  /\ UNCHANGED <<stored, cooldowns, monitoring, foregroundStatus,
                 backgroundStatus, taskVars, redux>>

\* _saveGeofences returned: _updateGeofences (add, remove),
\* Location.stopGeofencingAsync (clear) or the rest of initialize is next.
SaveVerified(c) ==
  /\ calls[c].pc = "save.verify" /\ StorageTurn(c)
  /\ Commit(IF calls[c].tail = "ensure"
            THEN AfterEnsure(Dequeue(Coord), c)
            ELSE [Dequeue(Coord) EXCEPT
                    !.calls[c].pc = IF calls[c].tail = "clear" THEN "clr.stop"
                                    ELSE "upd.fg"])
  /\ UNCHANGED <<stored, cooldowns, monitoring, foregroundStatus,
                 backgroundStatus, storageFailed, taskVars, redux>>

\* _updateGeofences: the foreground permission answer.
UpdForeground(c) ==
  /\ calls[c].pc = "upd.fg"
  /\ Commit(IF foregroundStatus = "granted"
            THEN [Coord EXCEPT !.calls[c].pc = "upd.bg"]
            ELSE AfterOp(Coord, c))
  /\ UNCHANGED <<stored, cooldowns, monitoring, foregroundStatus,
                 backgroundStatus, storageFailed, taskVars, redux>>

UpdBackgroundUnchecked(c) ==
  /\ calls[c].pc = "upd.bg"
  /\ Commit([Coord EXCEPT !.calls[c].pc = "upd.stop"])
  /\ UNCHANGED <<stored, cooldowns, monitoring, foregroundStatus,
                 backgroundStatus, storageFailed, taskVars, redux>>

\* _updateGeofences: the background permission answer.
UpdBackground(c) ==
  /\ calls[c].pc = "upd.bg"
  /\ Commit(IF backgroundStatus = "granted"
            THEN [Coord EXCEPT !.calls[c].pc = "upd.stop"]
            ELSE AfterOp(Coord, c))
  /\ UNCHANGED <<stored, cooldowns, monitoring, foregroundStatus,
                 backgroundStatus, storageFailed, taskVars, redux>>

\* Location.stopGeofencingAsync settles: it rejects when no task is
\* registered ("It's ok if there's no task to stop"), and unregisters the
\* regions otherwise.
StopSettles(ok) ==
  /\ ~ok => monitoring = {}
  /\ monitoring' = IF ok THEN {} ELSE monitoring

\* Location.startGeofencingAsync settles: the OS registers the regions only
\* for an app that holds both location permissions, and rejects otherwise or
\* on an error of its own.
StartSettles(ok, regions) ==
  /\ ok => (foregroundStatus = "granted" /\ backgroundStatus = "granted")
  /\ monitoring' = IF ok THEN regions ELSE monitoring

\* _updateGeofences: stopGeofencingAsync settled (a rejection is swallowed);
\* with geofences left the set is saved again before monitoring starts.
UpdStopped(c) ==
  /\ calls[c].pc = "upd.stop"
  /\ \E ok \in BOOLEAN : StopSettles(ok)
  /\ Commit(IF geofences = <<>> THEN AfterOp(Coord, c)
            ELSE saveGeofences(Coord, c, "save2.write"))
  /\ UNCHANGED <<stored, cooldowns, foregroundStatus, backgroundStatus,
                 storageFailed, taskVars, redux>>

Save2Written(c) ==
  /\ calls[c].pc = "save2.write" /\ StorageTurn(c)
  /\ stored' = JSONstringify(calls[c].snap)
  /\ Commit(IssueStorage([Dequeue(Coord) EXCEPT !.calls[c].snap = <<>>],
                         c, "save2.verify"))
  /\ UNCHANGED <<cooldowns, monitoring, foregroundStatus, backgroundStatus, storageFailed,
                 taskVars, redux>>

\* The rethrown error is caught by _updateGeofences, which returns normally.
Save2Failed(c) ==
  /\ calls[c].pc \in {"save2.write", "save2.verify"} /\ StorageTurn(c)
  /\ storageFailed' = TRUE
  /\ Commit(AfterOp([Dequeue(Coord) EXCEPT !.calls[c].snap = <<>>], c))
  /\ UNCHANGED <<stored, cooldowns, monitoring, foregroundStatus,
                 backgroundStatus, taskVars, redux>>

\* The regions are mapped from this.geofences as it is now, and
\* startGeofencingAsync is called.
Save2Verified(c) ==
  /\ calls[c].pc = "save2.verify" /\ StorageTurn(c)
  /\ Commit([Dequeue(Coord) EXCEPT !.calls[c].pc = "upd.start",
                                   !.calls[c].regions = Regions(geofences)])
  /\ UNCHANGED <<stored, cooldowns, monitoring, foregroundStatus,
                 backgroundStatus, storageFailed, taskVars, redux>>

\* _updateGeofences: startGeofencingAsync settled (a rejection is caught by
\* the outer catch).
UpdStarted(c) ==
  /\ calls[c].pc = "upd.start"
  /\ \E ok \in BOOLEAN : StartSettles(ok, calls[c].regions)
  /\ Commit(AfterOp([Coord EXCEPT !.calls[c].regions = {}], c))
  /\ UNCHANGED <<stored, cooldowns, foregroundStatus, backgroundStatus,
                 storageFailed, taskVars, redux>>

\* clearAllGeofences: stopGeofencingAsync settled; clearAllNotificationCooldowns
\* asks for all keys.
ClrStopped(c) ==
  /\ calls[c].pc = "clr.stop"
  /\ \E ok \in BOOLEAN : StopSettles(ok)
  /\ Commit(IssueStorage(Coord, c, "clr.keys"))
  /\ UNCHANGED <<stored, cooldowns, foregroundStatus, backgroundStatus,
                 storageFailed, taskVars, redux>>

\* clearAllNotificationCooldowns: getAllKeys settled.
ClrKeys(c) ==
  /\ calls[c].pc = "clr.keys" /\ StorageTurn(c)
  /\ \E ok \in BOOLEAN :
       /\ storageFailed' = (storageFailed \/ ~ok)
       /\ Commit(IF ok /\ DOMAIN cooldowns # {}
                 THEN IssueStorage([Dequeue(Coord) EXCEPT
                                      !.calls[c].keys = DOMAIN cooldowns],
                                   c, "clr.remove")
                 ELSE AfterOp(Dequeue(Coord), c))
  /\ UNCHANGED <<stored, cooldowns, monitoring, foregroundStatus,
                 backgroundStatus, taskVars, redux>>

\* clearAllNotificationCooldowns: multiRemove settled.
ClrRemoved(c) ==
  /\ calls[c].pc = "clr.remove" /\ StorageTurn(c)
  /\ \E ok \in BOOLEAN :
       /\ storageFailed' = (storageFailed \/ ~ok)
       /\ cooldowns' = IF ok
                       THEN [k \in DOMAIN cooldowns \ calls[c].keys |-> cooldowns[k]]
                       ELSE cooldowns
  /\ Commit(AfterOp([Dequeue(Coord) EXCEPT !.calls[c].keys = {}], c))
  /\ UNCHANGED <<stored, monitoring, foregroundStatus, backgroundStatus,
                 taskVars, redux>>

\* initialize() is called.
CallInitialize(c) ==
  /\ Free(c)
  /\ Commit([Begin(Coord, c, "initialize", "") EXCEPT
                !.calls[c].pc = "init.task",
                !.calls[c].given = <<geofences, stored>>])
  /\ UNCHANGED <<stored, cooldowns, monitoring, foregroundStatus,
                 backgroundStatus, storageFailed, taskVars, redux>>

\* initialize: TaskManager.isTaskDefined settled; a rejection ends
\* initialize in its catch.
InitTaskDefined(c) ==
  /\ calls[c].pc = "init.task"
  /\ \E ok \in BOOLEAN :
       Commit(IF ok THEN [Coord EXCEPT !.calls[c].pc = "init.notif"]
              ELSE Settle(Coord, c, "resolved"))
  /\ UNCHANGED <<stored, cooldowns, monitoring, foregroundStatus,
                 backgroundStatus, storageFailed, taskVars, redux>>

\* initialize: Notifications.requestPermissionsAsync settled, whatever the
\* status; _loadGeofences asks for the stored set.
InitNotifications(c) ==
  /\ calls[c].pc = "init.notif"
  /\ \E ok \in BOOLEAN :
       Commit(IF ok
              THEN IssueStorage([Coord EXCEPT !.calls[c].tail = "init"], c, "load.read")
              ELSE Settle(Coord, c, "resolved"))
  /\ UNCHANGED <<stored, cooldowns, monitoring, foregroundStatus,
                 backgroundStatus, storageFailed, taskVars, redux>>

\* this.geofences after _loadGeofences: the parsed text, and the empty set
\* when there is none, when the read rejected or when JSON.parse threw.
Loaded(ok) ==
  IF ok /\ stored.kind = "json" THEN JSONparse(stored) ELSE <<>>

\* reloadGeofencesFromStorage() is called: _loadGeofences asks for the
\* stored set.
CallReload(c) ==
  /\ Free(c)
  /\ Commit(IssueStorage([Begin(Coord, c, "reload", "") EXCEPT
                            !.calls[c].tail = "reload"], c, "load.read"))
  /\ UNCHANGED <<stored, cooldowns, monitoring, foregroundStatus,
                 backgroundStatus, storageFailed, taskVars, redux>>

LoadReadUncaught(c) ==
  /\ calls[c].pc = "load.read" /\ StorageTurn(c)
  /\ \E ok \in BOOLEAN :
       /\ storageFailed' = (storageFailed \/ ~ok)
       /\ LET st == [Dequeue(Coord) EXCEPT !.geofences = Loaded(ok)]
          IN Commit(IF ok /\ stored.kind = "corrupt"
                    THEN Settle(Dequeue(Coord), c, "rejected_storage")
                    ELSE IF calls[c].tail = "init"
                    THEN IssueStorage([st EXCEPT !.calls[c].tail = "none"], c, "ens.read")
                    ELSE IF calls[c].tail = "reload"
                    THEN Settle(st, c, "resolved")
                    ELSE AfterEnsure(st, c))
  /\ UNCHANGED <<stored, cooldowns, monitoring, foregroundStatus,
                 backgroundStatus, taskVars, redux>>

\* _loadGeofences: getItem settled.  Called by initialize it is followed by
\* the read of ensureGeofenceDataAvailable; called by
\* ensureGeofenceDataAvailable it ends it; called by
\* reloadGeofencesFromStorage it is followed by the return.
LoadRead(c) ==
  /\ calls[c].pc = "load.read" /\ StorageTurn(c)
  /\ \E ok \in BOOLEAN :
       /\ storageFailed' = (storageFailed \/ ~ok)
       /\ LET st == [Dequeue(Coord) EXCEPT !.geofences = Loaded(ok)]
          IN Commit(IF calls[c].tail = "init"
                    THEN IssueStorage([st EXCEPT !.calls[c].tail = "none"], c, "ens.read")
                    ELSE IF calls[c].tail = "reload"
                    THEN Settle(st, c, "resolved")
                    ELSE AfterEnsure(st, c))
  /\ UNCHANGED <<stored, cooldowns, monitoring, foregroundStatus,
                 backgroundStatus, taskVars, redux>>

\* ensureGeofenceDataAvailable: getItem settled.
EnsRead(c) ==
  /\ calls[c].pc = "ens.read" /\ StorageTurn(c)
  /\ \E ok \in BOOLEAN :
       /\ storageFailed' = (storageFailed \/ ~ok)
       /\ LET st == Dequeue(Coord)
              hasStoredData == ~NoStoredData(stored)
          IN Commit(
               IF ~ok THEN AfterEnsure(st, c)
               ELSE IF geofences # <<>> /\ ~hasStoredData
               THEN saveGeofences([st EXCEPT !.calls[c].tail = "ensure"], c, "save.write")
               ELSE IF hasStoredData /\ geofences = <<>>
               THEN IssueStorage([st EXCEPT !.calls[c].tail = "ensure"], c, "load.read")
               ELSE AfterEnsure(st, c))
  /\ UNCHANGED <<stored, cooldowns, monitoring, foregroundStatus,
                 backgroundStatus, taskVars, redux>>

InitForegroundUncaught(c) ==
  /\ calls[c].pc = "init.fg"
  /\ \E ok \in BOOLEAN :
       Commit(IF ~ok THEN Settle(Coord, c, "rejected_storage")
              ELSE IF foregroundStatus = "granted"
              THEN [Coord EXCEPT !.calls[c].pc = "upd.fg", !.calls[c].tail = "update"]
              ELSE Settle(Coord, c, "resolved"))
  /\ UNCHANGED <<stored, cooldowns, monitoring, foregroundStatus,
                 backgroundStatus, storageFailed, taskVars, redux>>

\* initialize: Location.getForegroundPermissionsAsync settled; granted, it
\* calls _updateGeofences.
InitForeground(c) ==
  /\ calls[c].pc = "init.fg"
  /\ \E ok \in BOOLEAN :
       Commit(IF ok /\ foregroundStatus = "granted"
              THEN [Coord EXCEPT !.calls[c].pc = "upd.fg", !.calls[c].tail = "update"]
              ELSE Settle(Coord, c, "resolved"))
  /\ UNCHANGED <<stored, cooldowns, monitoring, foregroundStatus,
                 backgroundStatus, storageFailed, taskVars, redux>>

\* The user grants or revokes a location permission in the system settings
\* (background access is granted on top of foreground access).
SetPermissions ==
  /\ \E fg \in {"granted", "denied"}, bg \in {"granted", "denied"} :
       /\ bg = "granted" => fg = "granted"
       /\ <<fg, bg>> # <<foregroundStatus, backgroundStatus>>
       /\ foregroundStatus' = fg
       /\ backgroundStatus' = bg
  /\ UNCHANGED <<geofences, stored, cooldowns, monitoring, calls, ioQueue,
                 storageFailed, settled, taskVars, redux>>

\* The app process starts anew: a fresh GeofencingService instance with an
\* empty array; the stored values and the regions the OS watches survive.
Restart ==
  /\ AllIdle
  /\ geofences # <<>> \/ settled # "none"
  /\ Commit([Coord EXCEPT !.geofences = <<>>, !.settled = "none"])
  /\ UNCHANGED <<stored, cooldowns, monitoring, foregroundStatus,
                 backgroundStatus, storageFailed, taskVars, redux>>

----------------------------------------------------------------------------
(* The screens and hooks that drive the coordinator *)

\* Saved-item lists and preferences the backend may return, and the values
\* the distance slider is released at.
BackendLists ==
  { <<>>,
    << Item("g1", TRUE, "Cafe", "v1", 45, 7),
       Item("g3", FALSE, "Deli", "v5", 45, 7) >>,
    << Item("v1", TRUE, "Bar", "v3", 46, 8) >> }
\* A preference the backend does not have is a key the object lacks.
BackendPreferences ==
  { <<>>,
    [masterNotificationsEnabled |-> TRUE, distanceMiles |-> 50],
    [masterNotificationsEnabled |-> FALSE] }
SliderValues == {50, 125}

\* isUpdatingRef.current: set before the rebuild of a slider commit begins
\* and reset in its finally, so it is true exactly while one is in flight.
isUpdatingRef == \E c \in Slots : calls[c].op = "commit"

\* checkAndRequestLocationServices settles: true only with location services
\* on and both permissions granted, asked for when they were missing.
LocationServices(ok) ==
  /\ foregroundStatus' = IF ok THEN "granted" ELSE foregroundStatus
  /\ backgroundStatus' = IF ok THEN "granted" ELSE backgroundStatus

\* A handler begins its clearAllGeofences() and the loop of addGeofence over
\* the items of its closure that follows it.
BeginRebuild(st, c, items, miles) ==
  clearAllGeofences([st EXCEPT !.calls[c].rebuild = TRUE,
                               !.calls[c].items = items,
                               !.calls[c].radius = MilesToMeters(miles)], c)

\* The loop of master ON has no notificationsEnabled test: it is the loop of
\* the other handlers over the items taken as enabled.
AsEnabled(items) ==
  [i \in 1..Len(items) |-> [items[i] EXCEPT !.notificationsEnabled = TRUE]]

SliderCommitUnguarded(c, val) ==
  /\ Free(c)
  /\ redux.masterNotificationsEnabled
  /\ val # redux.distanceMiles
  /\ redux' = [redux EXCEPT !.distanceMiles = val]
  /\ Commit(BeginRebuild([Begin(Coord, c, "commit", "") EXCEPT
                            !.calls[c].given = redux.items],
                         c, redux.items, val))
  /\ UNCHANGED <<stored, cooldowns, monitoring, foregroundStatus,
                 backgroundStatus, storageFailed, taskVars>>

\* Slider.onSlidingComplete(val); the slider is disabled with master alerts
\* off.  c is the slot the rebuild takes when it is begun.
SliderCommit(c, val) ==
  /\ Free(c)
  /\ redux.masterNotificationsEnabled
  /\ val # redux.distanceMiles
  /\ redux' = [redux EXCEPT !.distanceMiles = val]
  /\ IF isUpdatingRef
     THEN UNCHANGED <<geofences, calls, ioQueue, settled>>
     ELSE Commit(BeginRebuild([Begin(Coord, c, "commit", "") EXCEPT
                                 !.calls[c].given = redux.items],
                              c, redux.items, val))
  /\ UNCHANGED <<stored, cooldowns, monitoring, foregroundStatus,
                 backgroundStatus, storageFailed, taskVars>>

\* handleMasterToggle(value): switching on waits for
\* checkAndRequestLocationServices first; switching off stores the value and
\* begins the clear and the re-adding of the items enabled one by one.
handleMasterToggle(c, value) ==
  /\ Free(c)
  /\ value # redux.masterNotificationsEnabled
  /\ IF value
     THEN /\ Commit([Begin(Coord, c, "masterOn", "") EXCEPT
                       !.calls[c].pc = "toggle.check",
                       !.calls[c].given = redux.items])
          /\ UNCHANGED redux
     ELSE /\ redux' = [redux EXCEPT !.masterNotificationsEnabled = FALSE]
          /\ Commit(BeginRebuild([Begin(Coord, c, "masterOff", "") EXCEPT
                                    !.calls[c].given = redux.items],
                                 c, redux.items, redux.distanceMiles))
  /\ UNCHANGED <<stored, cooldowns, monitoring, foregroundStatus,
                 backgroundStatus, storageFailed, taskVars>>

\* handleMasterToggle(true): checkAndRequestLocationServices and
\* checkPermissions settled; refused, the handler returns; else the value is
\* stored and every item with coordinates is added after a clear.
ToggleChecked(c) ==
  /\ calls[c].pc = "toggle.check"
  /\ \E ok \in BOOLEAN :
       /\ LocationServices(ok)
       /\ IF ok
          THEN /\ redux' = [redux EXCEPT !.masterNotificationsEnabled = TRUE]
               /\ Commit(BeginRebuild(Coord, c, AsEnabled(calls[c].given),
                                      redux.distanceMiles))
          ELSE /\ Commit(Settle(Coord, c, "resolved"))
               /\ UNCHANGED redux
  /\ UNCHANGED <<stored, cooldowns, monitoring, storageFailed, taskVars>>

\* signOut() is called: supabase.auth.signOut() is awaited.
signOut(c) ==
  /\ Free(c)
  /\ Commit([Begin(Coord, c, "signOut", "") EXCEPT !.calls[c].pc = "auth.signOut"])
  /\ UNCHANGED <<stored, cooldowns, monitoring, foregroundStatus,
                 backgroundStatus, storageFailed, taskVars, redux>>

\* signOut: supabase.auth.signOut() settled; a rejection ends signOut, else
\* clearAllGeofences() is awaited.
AuthSignedOut(c) ==
  /\ calls[c].pc = "auth.signOut"
  /\ \E ok \in BOOLEAN :
       Commit(IF ok THEN clearAllGeofences(Coord, c)
              ELSE Settle(Coord, c, "rejected_auth"))
  /\ UNCHANGED <<stored, cooldowns, monitoring, foregroundStatus,
                 backgroundStatus, storageFailed, taskVars, redux>>

\* The effect of useAppInitialization runs initializeApp with the items, the
\* master switch and the distance of the render it was created in;
\* loadUserDataFromSupabase is awaited.
initializeApp(c) ==
  /\ Free(c)
  /\ Commit([Begin(Coord, c, "appInit", "") EXCEPT
               !.calls[c].pc = "app.load",
               !.calls[c].given = <<redux.items, redux.masterNotificationsEnabled,
                                    redux.distanceMiles>>])
  /\ UNCHANGED <<stored, cooldowns, monitoring, foregroundStatus,
                 backgroundStatus, storageFailed, taskVars, redux>>

\* loadUserDataFromSupabase returned: the list the backend gave (the empty
\* one on an error) and the preferences it has are in the Redux store;
\* GeofencingService.initialize() is awaited.
loadUserDataFromSupabase(c) ==
  /\ calls[c].pc = "app.load"
  /\ \E bucketListItems \in BackendLists, preferences \in BackendPreferences :
       redux' =
         [items |-> bucketListItems,
          masterNotificationsEnabled |->
            IF "masterNotificationsEnabled" \in DOMAIN preferences
            THEN preferences.masterNotificationsEnabled
            ELSE redux.masterNotificationsEnabled,
          distanceMiles |->
            IF "distanceMiles" \in DOMAIN preferences
            THEN preferences.distanceMiles
            ELSE redux.distanceMiles]
  /\ Commit([Coord EXCEPT !.calls[c].pc = "init.task"])
  /\ UNCHANGED <<stored, cooldowns, monitoring, foregroundStatus,
                 backgroundStatus, storageFailed, taskVars>>

\* initializeApp: checkAndRequestLocationServices settled; with location
\* services rebuildGeofencesFromState clears and adds the eligible items of
\* the closure with the distance of the closure.
rebuildGeofencesFromState(c) ==
  /\ calls[c].pc = "app.services"
  /\ \E ok \in BOOLEAN :
       /\ LocationServices(ok)
       /\ Commit(IF ok
                 THEN BeginRebuild(Coord, c, calls[c].given[1], calls[c].given[3])
                 ELSE Settle(Coord, c, "resolved"))
  /\ UNCHANGED <<stored, cooldowns, monitoring, storageFailed, taskVars, redux>>

----------------------------------------------------------------------------
(* The geofence task: TaskManager.defineTask(GEOFENCE_TASK_NAME, ...) *)

\* Region identifiers the OS may report, and stores the foreground may persist.
Identifiers == {"g1", "v1", "Cafe", "zz"}
TaskStores == {<<>>, <<gCafe100, gBar>>, <<gAlias, gCafe100>>}

\* Identifiers and stores of the runs that follow the retry loop: g2 is the
\* id of a record whose name is its id, v1 the venueId of a record.
RetryIdentifiers == {"g1", "g2", "v1", "zz"}
RetryStores == {<<>>, <<gSelf, gCafe100>>}

TickMs == NOTIFICATION_COOLDOWN \div 2
RetryReadsMore == 6 + 1
RetryReads == 6

IdleHandler ==
  [pc |-> "idle", identifier |-> "", i |-> 0, retried |-> FALSE,
   restaurantName |-> "", venueId |-> Undefined, rec |-> "", now |-> 0]

\* The normal lookup: by id, else by venueId, else by name.
NormalLookupNameFirst(gs, identifier) ==
  LET byId == FirstIndex(gs, "id", identifier)
      byVenue == FirstIndex(gs, "venueId", identifier)
      byName == FirstIndex(gs, "name", identifier)
  IN IF byId > 0 THEN byId ELSE IF byName > 0 THEN byName ELSE byVenue

NormalLookup(gs, identifier) ==
  LET byId == FirstIndex(gs, "id", identifier)
      byVenue == FirstIndex(gs, "venueId", identifier)
      byName == FirstIndex(gs, "name", identifier)
  IN IF byId > 0 THEN byId ELSE IF byVenue > 0 THEN byVenue ELSE byName

\* The lookup of the retry loop: by id only.
RetryLookup(gs, identifier) == FirstIndex(gs, "id", identifier)

\* const lastTime = lastNotificationTime ? parseInt(lastNotificationTime, 10) : 0
\* (the record holds now.toString(), which parseInt reads back).
LastTime(key) == IF key \in DOMAIN cooldowns THEN cooldowns[key] ELSE 0

CooldownElapsedInclusive(t, lastTime) == t - lastTime >= NOTIFICATION_COOLDOWN

\* timeSinceLastNotification > NOTIFICATION_COOLDOWN
CooldownElapsed(t, lastTime) == t - lastTime > NOTIFICATION_COOLDOWN

\* The key of the cooldown record: last_notification_${region.identifier}
CooldownKey(h) == h.identifier

Return(h) == handlers' = [handlers EXCEPT ![h] = IdleHandler]

ToCooldownPlaceholder(h, g, retried) ==
  handlers' = [handlers EXCEPT ![h].pc = "cooldown.read",
                               ![h].retried = retried,
                               ![h].restaurantName = handlers[h].identifier,
                               ![h].venueId = g.venueId,
                               ![h].rec = g.id,
                               ![h].now = now]

\* const now = Date.now(), and the cooldown record is asked for.
ToCooldown(h, g, retried) ==
  handlers' = [handlers EXCEPT ![h].pc = "cooldown.read",
                               ![h].retried = retried,
                               ![h].restaurantName = g.name,
                               ![h].venueId = g.venueId,
                               ![h].rec = g.id,
                               ![h].now = now]

HandlerFree(h) ==
  /\ handlers[h].pc = "idle"
  /\ \A d \in HSlots : d < h => handlers[d].pc # "idle"

\* The OS delivers an ENTER event: the task asks for the stored geofences.
TaskEnter(h, identifier) ==
  /\ HandlerFree(h)
  /\ events < MaxEvents
  /\ events' = events + 1
  /\ eventTypeStr' = "ENTER"
  /\ handlers' = [handlers EXCEPT ![h] = [IdleHandler EXCEPT
                                            !.pc = "store.read",
                                            !.identifier = identifier]]
  /\ UNCHANGED <<stored, cooldowns, notifications, escaped, now, coordVars, redux>>

TaskExitNotifies(identifier) ==
  /\ events < MaxEvents
  /\ events' = events + 1
  /\ eventTypeStr' = "EXIT"
  /\ notifications' = Append(notifications,
       [geofenceId |-> identifier, restaurantName |-> identifier,
        venueId |-> Undefined, rec |-> "", now |-> now])
  /\ UNCHANGED <<stored, cooldowns, handlers, escaped, now, coordVars, redux>>

\* The OS delivers an EXIT event: it is logged.
TaskExit(identifier) ==
  /\ events < MaxEvents
  /\ events' = events + 1
  /\ eventTypeStr' = "EXIT"
  /\ UNCHANGED <<stored, cooldowns, handlers, notifications, escaped, now,
                 coordVars, redux>>

\* An awaited call of the task rejects outside every try block.
TaskThrows(h) ==
  /\ handlers[h].pc \in {"store.read", "retry.read", "cooldown.read",
                         "notify", "cooldown.write"}
  /\ escaped' = TRUE
  /\ Return(h)
  /\ UNCHANGED <<stored, cooldowns, notifications, now, events, eventTypeStr, coordVars, redux>>

\* The first read of the store returned.
TaskStoreRead(h) ==
  /\ handlers[h].pc = "store.read"
  /\ IF NoStoredData(stored)
     THEN handlers' = [handlers EXCEPT ![h].pc = "retry.read",
                                       ![h].retried = TRUE,
                                       ![h].restaurantName = handlers[h].identifier]
     ELSE IF stored.kind = "corrupt"
     THEN Return(h)
     ELSE LET gs == JSONparse(stored)
              found == NormalLookup(gs, handlers[h].identifier)
          IN IF found > 0 THEN ToCooldown(h, gs[found], FALSE) ELSE Return(h)
  /\ UNCHANGED <<stored, cooldowns, notifications, escaped, now, events,
                 eventTypeStr, coordVars, redux>>

\* One turn of the retry loop: 500 ms later the store is read again.  Past
\* the loop the notification is skipped when restaurantName is still the
\* region identifier.
TaskRetryRead(h) ==
  /\ handlers[h].pc = "retry.read"
  /\ stored.kind # "corrupt"
  /\ LET gs == JSONparse(stored)
         found == IF NoStoredData(stored) THEN 0
                  ELSE RetryLookup(gs, handlers[h].identifier)
     IN IF found > 0
        THEN IF gs[found].name = handlers[h].identifier
             THEN Return(h)
             ELSE ToCooldown(h, gs[found], TRUE)
        ELSE IF handlers[h].i + 1 < RetryReads
             THEN handlers' = [handlers EXCEPT ![h].i = @ + 1]
             ELSE Return(h)
  /\ UNCHANGED <<stored, cooldowns, notifications, escaped, now, events,
                 eventTypeStr, coordVars, redux>>

\* A retry read returned text that JSON.parse rejects: nothing catches it.
TaskRetryParseThrows(h) ==
  /\ handlers[h].pc = "retry.read"
  /\ stored.kind = "corrupt"
  /\ escaped' = TRUE
  /\ Return(h)
  /\ UNCHANGED <<stored, cooldowns, notifications, now, events, eventTypeStr, coordVars, redux>>

TaskCooldownReadExtends(h) ==
  /\ handlers[h].pc = "cooldown.read"
  /\ IF CooldownElapsed(handlers[h].now, LastTime(CooldownKey(handlers[h])))
     THEN /\ handlers' = [handlers EXCEPT ![h].pc = "notify"]
          /\ cooldowns' = cooldowns
     ELSE /\ Return(h)
          /\ cooldowns' = (CooldownKey(handlers[h]) :> handlers[h].now) @@ cooldowns
  /\ UNCHANGED <<stored, notifications, escaped, now, events,
                 eventTypeStr, coordVars, redux>>

\* The cooldown record was read: notify or skip.
TaskCooldownRead(h) ==
  /\ handlers[h].pc = "cooldown.read"
  /\ IF CooldownElapsed(handlers[h].now, LastTime(CooldownKey(handlers[h])))
     THEN handlers' = [handlers EXCEPT ![h].pc = "notify"]
     ELSE Return(h)
  /\ UNCHANGED <<stored, cooldowns, notifications, escaped, now, events,
                 eventTypeStr, coordVars, redux>>

\* Notifications.scheduleNotificationAsync resolved; the time is stored.
TaskNotified(h) ==
  /\ handlers[h].pc = "notify"
  /\ notifications' = Append(notifications,
       [geofenceId |-> handlers[h].identifier,
        restaurantName |-> handlers[h].restaurantName,
        venueId |-> handlers[h].venueId,
        rec |-> handlers[h].rec,
        now |-> handlers[h].now])
  /\ handlers' = [handlers EXCEPT ![h].pc = "cooldown.write"]
  /\ UNCHANGED <<stored, cooldowns, escaped, now, events, eventTypeStr, coordVars, redux>>

\* AsyncStorage.setItem of the notification time resolved.
TaskCooldownWritten(h) ==
  /\ handlers[h].pc = "cooldown.write"
  /\ cooldowns' = (CooldownKey(handlers[h]) :> handlers[h].now) @@ cooldowns
  /\ Return(h)
  /\ UNCHANGED <<stored, notifications, escaped, now, events, eventTypeStr, coordVars, redux>>

\* Time passes: from the start of the clock to past the first window, then
\* by half windows.
Tick ==
  /\ now < MaxTicks * TickMs
  /\ now' = IF now = 0 THEN 3 * TickMs ELSE now + TickMs
  /\ UNCHANGED <<stored, cooldowns, handlers, notifications, escaped, events,
                 eventTypeStr, coordVars, redux>>

\* The foreground's _saveGeofences lands while the task runs.
PersistStore(gs) ==
  /\ stored # JSONstringify(gs)
  /\ stored' = JSONstringify(gs)
  /\ UNCHANGED <<cooldowns, handlers, notifications, escaped, now, events,
                 eventTypeStr, coordVars, redux>>

\* The stored text is damaged and no longer parses.
StoreCorrupted ==
  /\ stored.kind = "json"
  /\ stored' = StoredCorrupt
  /\ UNCHANGED <<cooldowns, handlers, notifications, escaped, now, events,
                 eventTypeStr, coordVars, redux>>

NoHandler == \A h \in HSlots : handlers[h].pc = "idle"

----------------------------------------------------------------------------
(* Specifications *)

InitCoord ==
  /\ geofences = <<>>
  /\ stored = StoredNull
  /\ cooldowns = ("g1" :> 3 * TickMs)
  /\ monitoring = {}
  /\ foregroundStatus = "granted"
  /\ backgroundStatus = "granted"
  /\ calls = [c \in Slots |-> IdleCall]
  /\ ioQueue = <<>>
  /\ storageFailed = FALSE
  /\ settled = "none"
  /\ handlers = [h \in HSlots |-> IdleHandler]
  /\ notifications = <<>>
  /\ escaped = FALSE
  /\ now = 3 * TickMs
  /\ events = 0
  /\ eventTypeStr = "none"
  /\ redux = InitialRedux

CoordStep ==
  \/ \E c \in Slots : SaveWritten(c)
  \/ \E c \in Slots : SaveFailed(c)
  \/ \E c \in Slots : SaveVerified(c)
  \/ \E c \in Slots : UpdForeground(c)
  \/ \E c \in Slots : UpdBackground(c)
  \/ \E c \in Slots : UpdStopped(c)
  \/ \E c \in Slots : Save2Written(c)
  \/ \E c \in Slots : Save2Failed(c)
  \/ \E c \in Slots : Save2Verified(c)
  \/ \E c \in Slots : UpdStarted(c)
  \/ \E c \in Slots : ClrStopped(c)
  \/ \E c \in Slots : ClrKeys(c)
  \/ \E c \in Slots : ClrRemoved(c)
  \/ SetPermissions

NextCoord ==
  \/ \E c \in Slots, g \in AddInputs : CallAddGeofence(c, g)
  \/ \E c \in Slots, id \in RemoveInputs : CallRemoveGeofence(c, id)
  \/ \E c \in Slots : CallClearAllGeofences(c)
  \/ \E c \in Slots, items \in ItemLists, d \in Distances : CallRebuild(c, items, d)
  \/ CoordStep

\* The coordinator under overlapping calls.
Spec == InitCoord /\ [][NextCoord]_vars

\* The coordinator with every call awaited before the next one is made.
NextCoordSeq ==
  \/ \E c \in Slots, g \in AllAddInputs : AllIdle /\ CallAddGeofence(c, g)
  \/ \E c \in Slots, id \in RemoveInputs : AllIdle /\ CallRemoveGeofence(c, id)
  \/ \E c \in Slots : AllIdle /\ CallClearAllGeofences(c)
  \/ \E c \in Slots, items \in AllItemLists, d \in Distances :
       AllIdle /\ CallRebuild(c, items, d)
  \/ \E c \in Slots : AllIdle /\ CallInitialize(c)
  \/ \E c \in Slots : InitTaskDefined(c)
  \/ \E c \in Slots : InitNotifications(c)
  \/ \E c \in Slots : LoadRead(c)
  \/ \E c \in Slots : EnsRead(c)
  \/ \E c \in Slots : InitForeground(c)
  \/ CoordStep

SpecCoordSeq == InitCoord /\ [][NextCoordSeq]_vars

\* The coordinator across restarts of the app, every call awaited.
NextRestart ==
  \/ \E c \in Slots, g \in RestartInputs : AllIdle /\ CallAddGeofence(c, g)
  \/ \E c \in Slots : AllIdle /\ CallClearAllGeofences(c)
  \/ \E c \in Slots : AllIdle /\ CallInitialize(c)
  \/ \E c \in Slots : AllIdle /\ CallReload(c)
  \/ \E c \in Slots : InitTaskDefined(c)
  \/ \E c \in Slots : InitNotifications(c)
  \/ \E c \in Slots : LoadRead(c)
  \/ \E c \in Slots : EnsRead(c)
  \/ \E c \in Slots : InitForeground(c)
  \/ Restart
  \/ AllIdle /\ StoreCorrupted
  \/ CoordStep

SpecRestart == InitCoord /\ [][NextRestart]_vars

\* The screens and the hooks over the coordinator: a handler starts when no
\* other one runs, except a slider commit, which may also be made while the
\* rebuild of an earlier commit runs.
NextPolicy ==
  \/ \E c \in Slots, val \in SliderValues :
       (AllIdle \/ isUpdatingRef) /\ SliderCommit(c, val)
  \/ \E c \in Slots, value \in BOOLEAN : AllIdle /\ handleMasterToggle(c, value)
  \/ \E c \in Slots : ToggleChecked(c)
  \/ \E c \in Slots : AllIdle /\ signOut(c)
  \/ \E c \in Slots : AuthSignedOut(c)
  \/ \E c \in Slots : AllIdle /\ initializeApp(c)
  \/ \E c \in Slots : loadUserDataFromSupabase(c)
  \/ \E c \in Slots : rebuildGeofencesFromState(c)
  \/ \E c \in Slots : InitTaskDefined(c)
  \/ \E c \in Slots : InitNotifications(c)
  \/ \E c \in Slots : LoadRead(c)
  \/ \E c \in Slots : EnsRead(c)
  \/ \E c \in Slots : InitForeground(c)
  \/ CoordStep

SpecPolicy == InitCoord /\ [][NextPolicy]_vars

InitTask ==
  /\ geofences = <<>>
  /\ stored = StoredNull
  /\ cooldowns = <<>>
  /\ monitoring = {}
  /\ foregroundStatus = "granted"
  /\ backgroundStatus = "granted"
  /\ calls = [c \in Slots |-> IdleCall]
  /\ ioQueue = <<>>
  /\ storageFailed = FALSE
  /\ settled = "none"
  /\ handlers = [h \in HSlots |-> IdleHandler]
  /\ notifications = <<>>
  /\ escaped = FALSE
  /\ now = 0
  /\ events = 0
  /\ eventTypeStr = "none"
  /\ redux = InitialRedux

TaskStep ==
  \/ \E h \in HSlots : TaskThrows(h)
  \/ \E h \in HSlots : TaskStoreRead(h)
  \/ \E h \in HSlots : TaskRetryRead(h)
  \/ \E h \in HSlots : TaskRetryParseThrows(h)
  \/ \E h \in HSlots : TaskCooldownRead(h)
  \/ \E h \in HSlots : TaskNotified(h)
  \/ \E h \in HSlots : TaskCooldownWritten(h)
  \/ \E identifier \in Identifiers : TaskExit(identifier)
  \/ Tick
  \/ \E gs \in TaskStores : PersistStore(gs)
  \/ StoreCorrupted

\* The geofence task, one event handled at a time.
NextTaskSeq ==
  \/ \E h \in HSlots, identifier \in Identifiers :
       NoHandler /\ TaskEnter(h, identifier)
  \/ TaskStep

SpecTaskSeq == InitTask /\ [][NextTaskSeq]_vars

\* The geofence task with events handled concurrently, over a store the
\* foreground persisted earlier and leaves alone.
InitTaskStored ==
  /\ geofences = <<gCafe100, gBar>>
  /\ stored = JSONstringify(<<gCafe100, gBar>>)
  /\ cooldowns = <<>>
  /\ monitoring = Regions(<<gCafe100, gBar>>)
  /\ foregroundStatus = "granted"
  /\ backgroundStatus = "granted"
  /\ calls = [c \in Slots |-> IdleCall]
  /\ ioQueue = <<>>
  /\ storageFailed = FALSE
  /\ settled = "none"
  /\ handlers = [h \in HSlots |-> IdleHandler]
  /\ notifications = <<>>
  /\ escaped = FALSE
  /\ now = 0
  /\ events = 0
  /\ eventTypeStr = "none"
  /\ redux = InitialRedux

NextTask ==
  \/ \E h \in HSlots, identifier \in Identifiers : TaskEnter(h, identifier)
  \/ \E h \in HSlots : TaskThrows(h)
  \/ \E h \in HSlots : TaskStoreRead(h)
  \/ \E h \in HSlots : TaskCooldownRead(h)
  \/ \E h \in HSlots : TaskNotified(h)
  \/ \E h \in HSlots : TaskCooldownWritten(h)
  \/ \E identifier \in Identifiers : TaskExit(identifier)
  \/ Tick

SpecTask == InitTaskStored /\ [][NextTask]_vars

\* The geofence task racing with awaited removeGeofence and clearAllGeofences
\* calls of the foreground, over a store persisted and watched earlier; the
\* storage requests of the foreground succeed and the permissions stay.
NextRace ==
  \/ \E h \in HSlots, identifier \in RemoveInputs :
       NoHandler /\ TaskEnter(h, identifier)
  \/ \E h \in HSlots : TaskThrows(h)
  \/ \E h \in HSlots : TaskStoreRead(h)
  \/ \E h \in HSlots : TaskRetryRead(h)
  \/ \E h \in HSlots : TaskCooldownRead(h)
  \/ \E h \in HSlots : TaskNotified(h)
  \/ \E h \in HSlots : TaskCooldownWritten(h)
  \/ Tick
  \/ \E c \in Slots, id \in RemoveInputs : AllIdle /\ CallRemoveGeofence(c, id)
  \/ \E c \in Slots : AllIdle /\ CallClearAllGeofences(c)
  \/ \E c \in Slots : SaveWritten(c)
  \/ \E c \in Slots : SaveVerified(c)
  \/ \E c \in Slots : UpdForeground(c)
  \/ \E c \in Slots : UpdBackground(c)
  \/ \E c \in Slots : UpdStopped(c)
  \/ \E c \in Slots : Save2Written(c)
  \/ \E c \in Slots : Save2Verified(c)
  \/ \E c \in Slots : UpdStarted(c)
  \/ \E c \in Slots : ClrStopped(c)
  \/ \E c \in Slots : ClrKeys(c)
  \/ \E c \in Slots : ClrRemoved(c)

SpecRace == InitTaskStored /\ [][NextRace]_vars

\* One step of invocation h of the task.
HandlerStep(h) ==
  \/ TaskThrows(h)
  \/ TaskStoreRead(h)
  \/ TaskRetryRead(h)
  \/ TaskRetryParseThrows(h)
  \/ TaskCooldownRead(h)
  \/ TaskNotified(h)
  \/ TaskCooldownWritten(h)

NextTaskRetry ==
  \/ \E h \in HSlots, identifier \in RetryIdentifiers :
       NoHandler /\ TaskEnter(h, identifier)
  \/ \E h \in HSlots : HandlerStep(h)
  \/ \E gs \in RetryStores : PersistStore(gs)
  \/ StoreCorrupted
  \/ Tick

\* The geofence task racing with the foreground's writes of the store; the
\* timers and the storage requests a handler awaits do settle.
SpecTaskRetry ==
  /\ InitTask
  /\ [][NextTaskRetry]_vars
  /\ \A h \in HSlots : WF_vars(HandlerStep(h))

----------------------------------------------------------------------------
(* Claims *)

UniqueIds(gs) ==
  \A i, j \in 1..Len(gs) : i # j => gs[i].id # gs[j].id

\* The persisted set: what the stored text holds, nothing when there is none.
PersistedSet == IF stored.kind = "json" THEN JSONparse(stored) ELSE <<>>

\* C1: under any sequence of addGeofence, removeGeofence, clearAllGeofences
\* and rebuildGeofencesFromBucketList calls, overlapping ones included, no two
\* records of the in-memory set share an id and no two records of the
\* persisted set share an id.
C1_UniqueIds == UniqueIds(geofences) /\ UniqueIds(PersistedSet)

\* Two calls overlap, one of them an addGeofence that met its id, and both
\* sets hold two records.
C1_Witness ==
  /\ \A c \in Slots : calls[c].pc # "idle"
  /\ \E c \in Slots : calls[c].existingIndex > 0
  /\ Len(geofences) = 2
  /\ Len(PersistedSet) = 2

\* C2: addGeofence(g) for an id that is already there replaces the record:
\* afterwards exactly one record has that id, it is g, and the number of
\* records is unchanged; adding a record that is already there changes
\* nothing; and the rest of the call leaves the set alone.
C2_UpsertReplaces ==
  [][ /\ \A c \in Slots, g \in AllAddInputs :
           ( /\ CallAddGeofence(c, g)
             /\ g.id # "" /\ g.name # ""
             /\ \E i \in 1..Len(geofences) : geofences[i].id = g.id )
           => /\ Len(geofences') = Len(geofences)
              /\ Cardinality({i \in 1..Len(geofences') : geofences'[i].id = g.id}) = 1
              /\ \A i \in 1..Len(geofences') :
                   geofences'[i] = IF geofences[i].id = g.id THEN g ELSE geofences[i]
              /\ (\E i \in 1..Len(geofences) : geofences[i] = g)
                   => geofences' = geofences
      /\ ( \E c \in Slots : calls[c].op = "add" /\ calls[c].pc # "idle" )
           => geofences' = geofences
    ]_vars

\* An addGeofence in flight replaced the 100 m record of g1, next to a
\* record of another id, by the wide one.
C2_Witness ==
  \E c \in Slots :
    /\ calls[c].pc = "save.write"
    /\ calls[c].existingIndex = 2
    /\ geofences = <<gBar, gCafeWide>>
    /\ PersistedSet = <<gBar, gCafe100>>

\* C3: when no coordinator call is in flight and no storage request has
\* failed, the persisted set is the in-memory set.
C3_IdleConsistent ==
  (AllIdle /\ ~storageFailed) => PersistedSet = geofences

\* Calls have completed, the last one normally, and left two records.
C3_Witness ==
  /\ AllIdle /\ ~storageFailed
  /\ settled = "resolved"
  /\ Len(geofences) = 2
  /\ stored = JSONstringify(geofences)

\* C4: a call that rejected because the storage write failed does not leave
\* the in-memory set different from the persisted set.
C4_FailedWriteLeavesNoDivergence ==
  (AllIdle /\ settled = "rejected_storage") => PersistedSet = geofences

\* C5: no exception leaves the geofence task.
C5_NoExceptionEscapes == ~escaped

NotifiedBefore(x) ==
  \E i \in 1..Len(notifications) : notifications[i].geofenceId = x

LastNotifiedAt(x) ==
  LET ts == {notifications[i].now :
               i \in {k \in 1..Len(notifications) : notifications[k].geofenceId = x}}
  IN CHOOSE t \in ts : \A u \in ts : u <= t

\* Handler h decides on the cooldown in this step, and nothing has thrown.
Decides(h) ==
  /\ handlers[h].pc = "cooldown.read"
  /\ handlers'[h].pc # "cooldown.read"
  /\ ~escaped'

\* C6: with events handled one at a time, an ENTER event of an identifier
\* that was notified before is notified iff now minus the time of its last
\* notification exceeds the cooldown window, and the notification carries
\* that identifier and time.
C6_CooldownIff ==
  [][ \A h \in HSlots :
        /\ ( Decides(h) /\ NotifiedBefore(handlers[h].identifier) )
             => ( handlers'[h].pc = "notify"
                  <=> handlers[h].now - LastNotifiedAt(handlers[h].identifier)
                        > NOTIFICATION_COOLDOWN )
        /\ ( handlers[h].pc = "notify" /\ handlers'[h].pc # "notify" /\ ~escaped' )
             => /\ Len(notifications') = Len(notifications) + 1
                /\ notifications'[Len(notifications')].geofenceId = handlers[h].identifier
                /\ notifications'[Len(notifications')].now = handlers[h].now
    ]_vars

\* g1 was notified at t, an event half a window later was skipped, and the
\* event one and a half windows after t was notified.
C6_Witness ==
  /\ ~escaped
  /\ events = 3
  /\ Len(notifications) = 2
  /\ notifications[1].geofenceId = "g1" /\ notifications[2].geofenceId = "g1"
  /\ notifications[1].now = 3 * TickMs
  /\ notifications[2].now = 6 * TickMs
  /\ "g1" \in DOMAIN cooldowns /\ cooldowns["g1"] = 6 * TickMs
  /\ NoHandler

\* C7: a resolved ENTER event whose identifier has no cooldown record is
\* notified, whatever the time.
C7_AbsentRecordNotifies ==
  [][ \A h \in HSlots :
        ( Decides(h) /\ handlers[h].identifier \notin DOMAIN cooldowns )
          => handlers'[h].pc = "notify"
    ]_vars

\* C8: two notifications of one geofence record are at least a cooldown
\* window apart, whichever identifiers the events carried.
C8_RecordSpacing ==
  ~escaped =>
    \A i, j \in 1..Len(notifications) :
      ( i < j /\ notifications[i].rec = notifications[j].rec )
        => notifications[j].now - notifications[i].now >= NOTIFICATION_COOLDOWN

\* C9: two notifications of one region identifier are more than a cooldown
\* window apart, also when their handlers ran concurrently.
C9_OnePerWindow ==
  ~escaped =>
    \A i, j \in 1..Len(notifications) :
      ( i < j /\ notifications[i].geofenceId = notifications[j].geofenceId )
        => notifications[j].now - notifications[i].now > NOTIFICATION_COOLDOWN

MatchesOf(gs, field, x) == {i \in 1..Len(gs) : gs[i][field] = x}
Least(S) == CHOOSE i \in S : \A j \in S : i <= j

\* No record of any store the foreground persists matches x by id, venueId
\* or name.
Unresolvable(x) ==
  \A gs \in TaskStores :
    MatchesOf(gs, "id", x) \cup MatchesOf(gs, "venueId", x)
      \cup MatchesOf(gs, "name", x) = {}

\* C11: while an ENTER event whose identifier matches no persisted geofence
\* is handled, no notification is dispatched, no cooldown record is written
\* and no exception leaves the handler.
C11_UnresolvableIsSilent ==
  [][ \A h \in HSlots :
        ( handlers[h].pc # "idle" /\ Unresolvable(handlers[h].identifier) )
          => /\ notifications' = notifications
             /\ cooldowns' = cooldowns
             /\ escaped' = escaped
    ]_vars

\* C12: a handler goes on to the cooldown check only with the name and
\* venueId of a record that is in the store it has just read and that matches
\* the identifier; it keeps them up to the notification, which carries that
\* name; a handler that did not resolve a record never notifies.
C12_NamesAResolvedRecord ==
  [][ \A h \in HSlots :
        /\ ( handlers[h].pc # "cooldown.read" /\ handlers'[h].pc = "cooldown.read" )
             => /\ handlers[h].pc \in {"store.read", "retry.read"}
                /\ stored.kind = "json"
                /\ \E i \in 1..Len(JSONparse(stored)) :
                     LET r == JSONparse(stored)[i]
                     IN /\ handlers[h].identifier \in {r.id, r.venueId, r.name}
                        /\ handlers'[h].restaurantName = r.name
                        /\ handlers'[h].venueId = r.venueId
        /\ ( handlers[h].pc # "notify" /\ handlers'[h].pc = "notify" )
             => /\ handlers[h].pc = "cooldown.read"
                /\ handlers'[h].restaurantName = handlers[h].restaurantName
        /\ Len(notifications') > Len(notifications)
             => \E d \in HSlots :
                  /\ handlers[d].pc = "notify"
                  /\ notifications' = Append(notifications,
                                             notifications'[Len(notifications')])
                  /\ notifications'[Len(notifications')].restaurantName
                       = handlers[d].restaurantName
    ]_vars

\* A handler that found the store empty at first and the record of g1 on a
\* retry read is about to notify with the name Cafe.
C12_Witness ==
  \E h \in HSlots :
    /\ handlers[h].pc = "notify"
    /\ handlers[h].retried
    /\ handlers[h].identifier = "g1"
    /\ handlers[h].restaurantName = "Cafe"

\* C13: the delivery of an EXIT event dispatches no notification, changes no
\* cooldown record and not the geofence store, and starts no read: every
\* invocation of the task stays where it was.
C13_ExitIsLoggedOnly ==
  [][ ( events' = events + 1 /\ eventTypeStr' = "EXIT" )
        => UNCHANGED <<notifications, cooldowns, stored, handlers>>
    ]_vars

\* An EXIT event was delivered while a handler of an ENTER event was about
\* to notify.
C13_Witness ==
  /\ eventTypeStr = "EXIT"
  /\ notifications = <<>>
  /\ \E h \in HSlots : handlers[h].pc = "notify"

\* C14: a handler in the retry loop has made fewer than 6 retry reads; each
\* of its steps there is one more read; it leaves the loop; and when it ends
\* there it has dispatched nothing.
C14_RetryBounded ==
  /\ [][ \A h \in HSlots :
           ( handlers[h].pc = "retry.read" /\ handlers'[h] # handlers[h] )
             => /\ handlers[h].i < 6
                /\ handlers'[h].pc = "retry.read" => handlers'[h].i = handlers[h].i + 1
                /\ handlers'[h].pc # "retry.read" => handlers[h].i + 1 <= 6
                /\ handlers'[h].pc = "idle" => notifications' = notifications
       ]_vars
  /\ \A h \in HSlots :
       (handlers[h].pc = "retry.read") ~> (handlers[h].pc # "retry.read")

\* Five retry reads found nothing and the sixth is awaited.
C14_Witness ==
  \E h \in HSlots : handlers[h].pc = "retry.read" /\ handlers[h].i = 5

\* C15: a retry read that finds a record with the id of the event makes the
\* handler go on to the cooldown check with the name of that record.
C15_RetryResolves ==
  [][ \A h \in HSlots :
        ( /\ handlers[h].pc = "retry.read"
          /\ handlers'[h] # handlers[h]
          /\ ~escaped'
          /\ stored.kind = "json"
          /\ MatchesOf(JSONparse(stored), "id", handlers[h].identifier) # {} )
        => LET gs == JSONparse(stored)
               r == gs[Least(MatchesOf(gs, "id", handlers[h].identifier))]
           IN /\ handlers'[h].pc = "cooldown.read"
              /\ handlers'[h].restaurantName = r.name
    ]_vars

\* The call in slot c of method op returns normally in this step.
Completes(c, op) ==
  /\ calls[c].op = op
  /\ calls[c].pc # "idle"
  /\ calls'[c].pc = "idle"
  /\ settled' = "resolved"

Ids(gs) == {gs[i].id : i \in 1..Len(gs)}
Watched(regions) == {r.identifier : r \in regions}
BothGranted == foregroundStatus = "granted" /\ backgroundStatus = "granted"

\* C16: when clearAllGeofences() returns, the in-memory set is empty, the
\* persisted set is the empty array and the OS watches no region, whatever
\* the permissions are and whether regions were watched or not.
C16_ClearEmptiesAll ==
  [][ \A c \in Slots :
        Completes(c, "clear")
          => /\ geofences' = <<>>
             /\ stored' = JSONstringify(<<>>)
             /\ monitoring' = {}
    ]_vars

\* clearAllGeofences() is about to stop the watch of two regions while the
\* background permission is revoked.
C16_Witness ==
  \E c \in Slots :
    /\ calls[c].op = "clear" /\ calls[c].pc = "clr.stop"
    /\ backgroundStatus = "denied"
    /\ Cardinality(monitoring) = 2
    /\ geofences = <<>> /\ stored = JSONstringify(<<>>)

\* C17: when clearAllGeofences() returns, no cooldown record exists.
C17_ClearPurgesCooldowns ==
  [][ \A c \in Slots : Completes(c, "clear") => DOMAIN cooldowns' = {} ]_vars

\* C18: the OS watch list changes to a non-empty one only while both
\* permissions are granted; _updateGeofences goes on to stop the watch only
\* after both permission answers were "granted"; and an addGeofence,
\* removeGeofence or initialize that finds a permission missing returns
\* normally in that step with the watch list as it was when the call began
\* and, for add and remove, with the requested change in memory and in the
\* store.
C18_PermissionGate ==
  [][ /\ ( monitoring' # monitoring /\ monitoring' # {} ) => BothGranted
      /\ \A c \in Slots :
           /\ ( calls[c].pc # "upd.stop" /\ calls'[c].pc = "upd.stop" )
                => ( calls[c].pc = "upd.bg" /\ BothGranted )
           /\ ( calls[c].pc # "upd.bg" /\ calls'[c].pc = "upd.bg" )
                => ( calls[c].pc = "upd.fg" /\ foregroundStatus = "granted" )
           /\ ( /\ calls[c].op \in {"add", "remove", "initialize"}
                /\ calls[c].pc \in {"save.write", "save.verify", "init.task",
                                    "init.notif", "load.read", "ens.read",
                                    "init.fg", "upd.fg", "upd.bg"} )
                => monitoring' = monitoring
           /\ ( /\ calls[c].op \in {"add", "remove", "initialize"}
                /\ calls'[c] # calls[c]
                /\ \/ calls[c].pc \in {"upd.fg", "init.fg"} /\ foregroundStatus # "granted"
                   \/ calls[c].pc = "upd.bg" /\ backgroundStatus # "granted" )
                => /\ Completes(c, calls[c].op)
                   /\ UNCHANGED <<geofences, stored, monitoring>>
                   /\ calls[c].op = "add"
                        => ( calls[c].id \in Ids(geofences) /\ PersistedSet = geofences )
                   /\ calls[c].op = "remove"
                        => ( calls[c].id \notin Ids(geofences) /\ PersistedSet = geofences )
    ]_vars

\* A call returned normally while the background permission was revoked:
\* the store holds the two records of the active set and the OS still
\* watches the one region it watched before.
C18_Witness ==
  /\ AllIdle /\ settled = "resolved" /\ ~storageFailed
  /\ backgroundStatus = "denied"
  /\ Len(geofences) = 2 /\ stored = JSONstringify(geofences)
  /\ Cardinality(monitoring) = 1

\* C19: when addGeofence or removeGeofence returns normally, both permission
\* answers having been "granted" and no OS call having failed, the OS watches
\* exactly one region per active geofence, identified by its id (none when
\* the active set is empty).
C19_WatchIsActiveSet ==
  [][ \A c \in Slots :
        ( /\ Completes(c, "add") \/ Completes(c, "remove")
          /\ calls[c].pc \notin {"upd.fg", "upd.bg"}
          /\ ~(calls[c].pc = "upd.start" /\ StartSettles(FALSE, calls[c].regions)) )
        => /\ Watched(monitoring') = Ids(geofences')
           /\ Cardinality(monitoring') = Len(geofences')
    ]_vars

\* C20: when removeGeofence(id) returns, id is neither in the persisted set
\* nor in the OS watch list.
C20_RemovedIsUnregistered ==
  [][ \A c \in Slots :
        Completes(c, "remove")
          => /\ calls[c].id \notin Ids(PersistedSet')
             /\ calls[c].id \notin Watched(monitoring')
    ]_vars

\* C21: calls do not interleave their persist-then-reprogram sequences:
\* while a call is between its mutation and its return, only its own steps
\* write the store or reprogram the OS watch.
C21_NoInterleaving ==
  [][ \A c \in Slots :
        ( calls[c].pc # "idle" /\ calls'[c] = calls[c] )
          => ( stored' = stored /\ monitoring' = monitoring )
    ]_vars

\* C22: when the OS watch list becomes a non-empty one, every identifier in
\* it is the id of a record of the persisted set at that moment (no storage
\* request having failed).
C22_PersistedBeforeWatched ==
  [][ ( monitoring' # monitoring /\ monitoring' # {} /\ ~storageFailed )
        => Watched(monitoring') \subseteq Ids(PersistedSet)
    ]_vars

\* C23: when rebuildGeofencesFromBucketList settles, no storage request
\* having failed, the active set holds exactly one geofence per given item
\* that has notifications enabled and both coordinates, with the item's id,
\* venue name, coordinates and venue id and the radius derived from the
\* distance, and nothing else.
C23_RebuildExact ==
  [][ \A c \in Slots :
        ( /\ calls[c].op = "rebuild"
          /\ calls[c].pc # "idle"
          /\ calls'[c].pc = "idle"
          /\ ~storageFailed' )
          => LET items == calls[c].given
                 want == { [id |-> items[i].id, name |-> items[i].name,
                            latitude |-> items[i].latitude,
                            longitude |-> items[i].longitude,
                            radius |-> calls[c].radius,
                            venueId |-> items[i].venueId]
                           : i \in { j \in 1..Len(items) :
                                       /\ items[j].notificationsEnabled
                                       /\ items[j].latitude # 0
                                       /\ items[j].longitude # 0 } }
             IN /\ { geofences'[i] : i \in 1..Len(geofences') } = want
                /\ Len(geofences') = Cardinality(want)
    ]_vars

\* C24: every region the OS is started with carries the id and coordinates of
\* an active geofence and the larger of that geofence's radius and 100 m,
\* while the active and the persisted record keep the requested radius.
C24_RadiusClamped ==
  [][ \A c \in Slots :
        ( calls[c].pc = "upd.start" /\ monitoring' # monitoring )
          => /\ \A r \in monitoring' :
                  \E i \in 1..Len(geofences') :
                    /\ geofences'[i].id = r.identifier
                    /\ geofences'[i].latitude = r.latitude
                    /\ geofences'[i].longitude = r.longitude
                    /\ r.radius = IF geofences'[i].radius < 100 * 10000
                                  THEN 100 * 10000
                                  ELSE geofences'[i].radius
             /\ PersistedSet' = geofences'
             /\ geofences' = geofences
    ]_vars

\* A geofence asked for with 50 m is watched with 100 m and kept with 50 m.
C24_Witness ==
  /\ AllIdle
  /\ geofences = <<gCafe50>>
  /\ PersistedSet = <<gCafe50>>
  /\ monitoring = { [identifier |-> "g1", latitude |-> 45, longitude |-> 7,
                     radius |-> 100 * 10000] }

\* C29: a call of addGeofence whose geofence has an empty or missing id or an
\* empty or missing name is rejected in that step, issues no request, and
\* leaves the in-memory set, the stored value and the OS watch list as they
\* were.
C29_InvalidAddChangesNothing ==
  [][ \A c \in Slots, g \in AllAddInputs :
        ( /\ g.id \in {"", Undefined} \/ g.name \in {"", Undefined}
          /\ CallAddGeofence(c, g) )
          => /\ settled' = "rejected_invalid"
             /\ calls'[c].pc = "idle"
             /\ ioQueue' = ioQueue
             /\ geofences' = geofences
             /\ stored' = stored
             /\ monitoring' = monitoring
    ]_vars

\* An invalid addGeofence was rejected while a geofence is active, persisted
\* and watched (a radius of 50 m is not one a rebuild produces).
C29_Witness ==
  /\ AllIdle
  /\ settled = "rejected_invalid"
  /\ geofences = <<gCafe50>>
  /\ PersistedSet = <<gCafe50>>
  /\ Watched(monitoring) = {"g1"}

\* C30: a call of removeGeofence with an id that no active geofence has
\* leaves the in-memory set as it was, and the set it serialises for the store
\* is the persisted set.
C30_RemoveAbsentIsNoop ==
  [][ \A c \in Slots :
        ( /\ calls[c].pc = "idle"
          /\ calls'[c].op = "remove"
          /\ calls'[c].id \notin Ids(geofences) )
          => /\ geofences' = geofences
             /\ calls'[c].snap = PersistedSet
    ]_vars

\* C25: an initialize() that begins with an empty in-memory set, gets to its
\* load and meets no storage failure ends with the in-memory set equal, field
\* by field and in order, to the geofences whose serialisation the store held
\* when it began.
C25_RestartRoundTrip ==
  [][ \A c \in Slots :
        ( /\ calls[c].op = "initialize"
          /\ calls[c].pc \notin {"idle", "init.task", "init.notif"}
          /\ calls'[c].pc = "idle"
          /\ calls[c].given[1] = <<>>
          /\ ~storageFailed' )
          => \A g1 \in RestartInputs, g2 \in RestartInputs :
               /\ calls[c].given[2] = JSONstringify(<<g1>>)
                    => geofences' = <<g1>>
               /\ ( g1.id # g2.id /\ calls[c].given[2] = JSONstringify(<<g1, g2>>) )
                    => geofences' = <<g1, g2>>
    ]_vars

\* initialize() began with empty memory and the store of two earlier
\* addGeofence calls, one record without venueId, and has loaded both.
C25_Witness ==
  \E c \in Slots :
    /\ calls[c].op = "initialize"
    /\ calls[c].pc = "init.fg"
    /\ calls[c].given = << <<>>, JSONstringify(<<gCafeWide, gSelf>>) >>
    /\ geofences = <<gCafeWide, gSelf>>

\* C26: whenever an initialize() call settles, it resolves, whichever of its
\* requests failed.
C26_InitializeResolves ==
  [][ \A c \in Slots :
        ( /\ calls[c].op = "initialize"
          /\ calls[c].pc # "idle"
          /\ calls'[c].pc = "idle" )
          => settled' = "resolved"
    ]_vars

\* The storage read of initialize()'s load rejected (the store holds a
\* geofence, memory is empty after the load) and initialize() goes on.
C26_Witness ==
  \E c \in Slots :
    /\ calls[c].op = "initialize"
    /\ calls[c].pc = "ens.read"
    /\ storageFailed
    /\ stored = JSONstringify(<<gCafeWide>>)
    /\ geofences = <<>>

\* C27: an initialize() call that got to its load ends, when it began with an
\* empty in-memory set and a store holding geofences and no storage request
\* failed, with those geofences in memory; and when it began with geofences in
\* memory and an empty or absent store, with the same geofences in memory and
\* in the store.
C27_InitializeReconciles ==
  [][ \A c \in Slots :
        ( /\ calls[c].op = "initialize"
          /\ calls[c].pc \notin {"idle", "init.task", "init.notif"}
          /\ calls'[c].pc = "idle" )
          => LET memory == calls[c].given[1]
                 storedData == calls[c].given[2]
             IN /\ ( /\ ~storageFailed'
                     /\ memory = <<>>
                     /\ storedData.kind = "json"
                     /\ storedData.val # <<>> )
                     => geofences' = JSONparse(storedData)
                /\ ( memory # <<>> /\ NoStoredData(storedData) )
                     => ( geofences' = memory /\ PersistedSet' = memory )
    ]_vars

\* C28: when _loadGeofences gets its answer while the stored text does not
\* parse, the in-memory set becomes empty and the caller goes on:
\* reloadGeofencesFromStorage resolves, initialize issues the read of
\* ensureGeofenceDataAvailable, and no call is rejected.
C28_LoadSwallowsParseError ==
  [][ \A c \in Slots :
        ( /\ calls[c].pc = "load.read"
          /\ calls'[c] # calls[c]
          /\ stored.kind = "corrupt" )
          => /\ geofences' = <<>>
             /\ calls[c].tail = "reload"
                  => ( calls'[c].pc = "idle" /\ settled' = "resolved" )
             /\ calls[c].tail = "init"
                  => ( calls'[c].pc = "ens.read" /\ settled' = settled )
             /\ calls'[c].pc = "idle" => settled' = "resolved"
    ]_vars

\* initialize() began with a geofence in memory and a stored text that does
\* not parse; no storage request failed, memory is empty after the load and
\* initialize() is at its next read.
C28_Witness ==
  \E c \in Slots :
    /\ calls[c].op = "initialize"
    /\ calls[c].pc = "ens.read"
    /\ calls[c].given[1] # <<>>
    /\ stored.kind = "corrupt"
    /\ ~storageFailed
    /\ geofences = <<>>

\* C34: a retry read that returns a non-empty store resolves the identifier
\* as the first read does: by id, else by venueId, else by name; the handler
\* goes on to the cooldown check with the record found, and does not when
\* there is none.
C34_RetryChainAsFirstRead ==
  [][ \A h \in HSlots :
        ( /\ handlers[h].pc = "retry.read"
          /\ handlers'[h] # handlers[h]
          /\ ~escaped'
          /\ stored.kind = "json"
          /\ stored.val # <<>> )
        => LET gs == JSONparse(stored)
               x == handlers[h].identifier
               byId == MatchesOf(gs, "id", x)
               byVenue == MatchesOf(gs, "venueId", x)
               byName == MatchesOf(gs, "name", x)
               match == IF byId # {} THEN Least(byId)
                        ELSE IF byVenue # {} THEN Least(byVenue)
                        ELSE IF byName # {} THEN Least(byName)
                        ELSE 0
           IN IF match > 0
              THEN /\ handlers'[h].pc = "cooldown.read"
                   /\ handlers'[h].restaurantName = gs[match].name
                   /\ handlers'[h].rec = gs[match].id
              ELSE handlers'[h].pc # "cooldown.read"
    ]_vars

\* C35: the cooldown records change only when a handler's write after its
\* notification lands: the record of the event's identifier is set to the
\* time the handler took for its cooldown check, which is the time of the
\* notification it has dispatched; every other step of a handler, its return
\* on a cooldown not elapsed, on an unresolved identifier or on a failed
\* dispatch included, leaves every cooldown record as it was.
C35_CooldownWrittenAfterNotify ==
  [][ /\ cooldowns' # cooldowns
        => \E h \in HSlots :
             /\ handlers[h].pc = "cooldown.write"
             /\ handlers'[h].pc = "idle"
             /\ cooldowns' = (handlers[h].identifier :> handlers[h].now) @@ cooldowns
             /\ \E i \in 1..Len(notifications) :
                  /\ notifications[i].geofenceId = handlers[h].identifier
                  /\ notifications[i].now = handlers[h].now
      /\ \A h \in HSlots :
           ( handlers'[h] # handlers[h] /\ handlers[h].pc # "cooldown.write" )
             => cooldowns' = cooldowns
    ]_vars

\* One notification was dispatched and its time recorded; a later ENTER event
\* has been handled to its end and the record is as the notification left it.
C35_Witness ==
  /\ NoHandler
  /\ events = 2
  /\ eventTypeStr = "ENTER"
  /\ Len(notifications) = 1
  /\ notifications[1].geofenceId \in DOMAIN cooldowns
  /\ cooldowns[notifications[1].geofenceId] = notifications[1].now
  /\ now > notifications[1].now

\* C36: no step of an addGeofence or removeGeofence call changes a cooldown
\* record; the records change only when the multiRemove of a
\* clearAllGeofences call (alone or inside a rebuild) lands, and then records
\* are deleted and none is created or changed.
C36_OnlyClearDeletesCooldowns ==
  [][ /\ \A c \in Slots :
           ( /\ calls[c].op \in {"add", "remove"} \/ calls'[c].op \in {"add", "remove"}
             /\ calls'[c] # calls[c] )
             => cooldowns' = cooldowns
      /\ cooldowns' # cooldowns
           => /\ \E c \in Slots :
                   /\ calls[c].op \in {"clear", "rebuild"}
                   /\ calls[c].pc = "clr.remove"
                   /\ calls'[c] # calls[c]
              /\ DOMAIN cooldowns' \subseteq DOMAIN cooldowns
              /\ \A k \in DOMAIN cooldowns' : cooldowns'[k] = cooldowns[k]
    ]_vars

\* The watched geofence g1, notified for before, is being removed (its store
\* write has landed) and its cooldown record is in place.
C36_Witness ==
  \E c \in Slots :
    /\ calls[c].op = "remove"
    /\ calls[c].id = "g1"
    /\ calls[c].pc = "upd.stop"
    /\ "g1" \in Watched(monitoring)
    /\ geofences = <<>>
    /\ PersistedSet = <<>>
    /\ "g1" \in DOMAIN cooldowns

\* The geofence with id r is gone: no call is in flight, the last one
\* resolved, and r is neither in memory, nor in the store, nor watched.
Removed(r) ==
  /\ AllIdle
  /\ settled = "resolved"
  /\ r \notin Ids(geofences)
  /\ r \notin Ids(PersistedSet)
  /\ r \notin Watched(monitoring)

\* C37: once a removeGeofence or clearAllGeofences call has completed and a
\* geofence is gone, a handler that had resolved that geofence before and
\* now gets its cooldown record does not go on to dispatch a notification,
\* and no handler writes a cooldown record for it.
C37_NoNotifyAfterRemoval ==
  [][ \A h \in HSlots :
        Removed(handlers[h].rec)
          => /\ handlers[h].pc = "cooldown.read" => handlers'[h].pc # "notify"
             /\ handlers[h].pc = "cooldown.read" => cooldowns' = cooldowns
    ]_vars

\* C31: a slider commit made while the rebuild of an earlier commit is in
\* flight stores the new distance and does nothing else: no coordinator call
\* begins, no storage request is queued, the in-flight rebuild, the active
\* set, the stored set, the watch list and the cooldown records are as they
\* were, and nothing settles with an error.
C31_SecondCommitIsNoop ==
  [][ (isUpdatingRef /\ redux'.distanceMiles # redux.distanceMiles)
        => UNCHANGED <<geofences, stored, monitoring, cooldowns, calls,
                       ioQueue, settled, storageFailed>>
    ]_vars

\* The rebuild of a commit is about to register its regions with a radius
\* that is no longer the stored distance: a second commit was made meanwhile.
C31_Witness ==
  \E c \in Slots :
    /\ calls[c].op = "commit" /\ calls[c].pc = "upd.start"
    /\ calls[c].radius # MilesToMeters(redux.distanceMiles)
    /\ geofences # <<>>

\* C32: when signOut() returns, the in-memory set is empty, the persisted
\* set is the empty array, the OS watches no region and no cooldown record
\* exists.
C32_SignOutDestroysAll ==
  [][ \A c \in Slots :
        Completes(c, "signOut")
          => /\ geofences' = <<>>
             /\ stored' = JSONstringify(<<>>)
             /\ monitoring' = {}
             /\ DOMAIN cooldowns' = {}
    ]_vars

\* C33: when handleMasterToggle(false) returns and no storage request has
\* failed, the in-memory set is empty and the persisted set is the empty
\* array.
C33_MasterOffDestroysAll ==
  [][ \A c \in Slots :
        (Completes(c, "masterOff") /\ ~storageFailed')
          => (geofences' = <<>> /\ stored' = JSONstringify(<<>>))
    ]_vars

\* C38: when the rebuild of a slider commit returns with master alerts on,
\* so that no commit is in flight any more, and no storage request has
\* failed, every active geofence has the radius of the stored distance.
C38_RadiusFollowsDistance ==
  [][ \A c \in Slots :
        ( /\ Completes(c, "commit")
          /\ redux'.masterNotificationsEnabled
          /\ ~storageFailed' )
          => \A i \in 1..Len(geofences') :
               geofences'[i].radius = MilesToMeters(redux'.distanceMiles)
    ]_vars

\* The geofences of the eligible items of a list under an alert distance.
EligibleGeofences(items, miles) ==
  { [id |-> items[i].id, name |-> items[i].name,
     latitude |-> items[i].latitude, longitude |-> items[i].longitude,
     radius |-> MilesToMeters(miles), venueId |-> items[i].venueId]
    : i \in {j \in 1..Len(items) : Eligible(items[j])} }

\* C39: when initializeApp returns, other than for missing location
\* services, with master alerts on in the Redux store, both location
\* permissions granted and no storage request failed, the active set is the
\* set of the eligible items of the list now in the Redux store (the one this
\* initialization loaded) with the radius of the distance now in the store.
C39_InitUsesLoadedState ==
  [][ \A c \in Slots :
        ( /\ Completes(c, "appInit")
          /\ calls[c].pc # "app.services"
          /\ redux'.masterNotificationsEnabled
          /\ foregroundStatus' = "granted" /\ backgroundStatus' = "granted"
          /\ ~storageFailed' )
          => {geofences'[i] : i \in 1..Len(geofences')}
               = EligibleGeofences(redux'.items, redux'.distanceMiles)
    ]_vars

\* C10: with a non-empty store at the first read, the identifier resolves to
\* the first record with that id, else the first with that venueId, else the
\* first with that name, else the event is dropped; the notification carries
\* the name and venueId of that record.
C10_FallbackChain ==
  [][ \A h \in HSlots :
        LET x == handlers[h].identifier
            gs == JSONparse(stored)
            ids == MatchesOf(gs, "id", x)
            venues == MatchesOf(gs, "venueId", x)
            names == MatchesOf(gs, "name", x)
        IN
        /\ ( /\ handlers[h].pc = "store.read" /\ handlers'[h].pc # "store.read"
             /\ stored.kind = "json" /\ gs # <<>> /\ ~escaped' )
             => IF ids \cup venues \cup names = {}
                THEN handlers'[h].pc = "idle"
                ELSE LET r == gs[IF ids # {} THEN Least(ids)
                                ELSE IF venues # {} THEN Least(venues)
                                ELSE Least(names)]
                     IN /\ handlers'[h].pc = "cooldown.read"
                        /\ handlers'[h].restaurantName = r.name
                        /\ handlers'[h].venueId = r.venueId
        /\ ( handlers[h].pc \in {"cooldown.read", "notify"}
             /\ handlers'[h].pc # "idle" )
             => /\ handlers'[h].restaurantName = handlers[h].restaurantName
                /\ handlers'[h].venueId = handlers[h].venueId
        /\ ( handlers[h].pc = "notify" /\ handlers'[h].pc = "cooldown.write" )
             => /\ Len(notifications') = Len(notifications) + 1
                /\ notifications'[Len(notifications')].restaurantName
                     = handlers[h].restaurantName
                /\ notifications'[Len(notifications')].venueId = handlers[h].venueId
    ]_vars

\* An event carrying the venue id v1 was notified as Cafe.
C10_Witness ==
  \E i \in 1..Len(notifications) :
    /\ notifications[i].geofenceId = "v1"
    /\ notifications[i].restaurantName = "Cafe"
    /\ notifications[i].venueId = "v1"

====
